---------------------------- MODULE Spec2Model ----------------------------
(***************************************************************************)
(* Model of the CBC news scraper (SynapseWorks/CBCReader).                 *)
(*                                                                         *)
(*   scraper/utils.py : stable_id, parse_date, summarize,                  *)
(*                      detect_article_type                                *)
(*   scraper/main.py  : scrape_section, deduplicate, main                  *)
(*                                                                         *)
(* Strings are sequences of tokens.  A token is one character of the text, *)
(* except that an entity reference ("&nbsp;") and a run of letters that    *)
(* never matters character by character ("opinion", "cbc.ca") are one      *)
(* token each.  Four specifications share the variables:                   *)
(*   SpecSum    : summarize applied to every bounded text                  *)
(*   SpecType   : detect_article_type applied to every bounded URL         *)
(*   Spec       : one run of main() over nondeterministic feeds            *)
(*   SpecRepeat : two runs of main() over feeds that stay the same         *)
(* The pacing sleeps, the HTTP retries, the sentiment score and the        *)
(* subjectivity hint change nothing the properties below read and are      *)
(* left out.                                                               *)
(***************************************************************************)
EXTENDS Integers, Sequences, FiniteSets, TLC

VARIABLES
    sum_pc, sum_text, sum_max, sum_out,   \* one call of summarize
    type_pc, type_url, type_out,          \* one call of detect_article_type
    \* main(): the program's own state
    pc,             \* where main() stands
    allow_extract,  \* config["allow_extract"]
    sec,            \* index of the section the loop of main() is at
    feed,           \* scrape_section: feed.entries
    k,              \* scrape_section: entries of the feed already handled
    items,          \* scrape_section: items
    all_items,      \* main: all_items
    output,         \* main: output["items"]
    file,           \* data/latest.json on disk
    \* the environment and what the run has done so far
    pool,           \* the raw entries the upstream feeds are made of
    pinned,         \* <<>>, or the feed document each section serves
    visited,        \* sections scrape_section was called for, in order
    failed,         \* sections whose scrape_section raised
    pages,          \* what each secondary fetch returned, in order
    writes,         \* how often latest.json was opened for writing
    run,            \* 1, or 2 for the repeated run
    prev            \* what the first run left, for the repeated run

sum_vars  == <<sum_pc, sum_text, sum_max, sum_out>>
type_vars == <<type_pc, type_url, type_out>>
main_vars == <<pc, allow_extract, sec, feed, k, items, all_items, output, file,
               pool, pinned, visited, failed, pages, writes, run, prev>>
vars == <<sum_vars, type_vars, main_vars>>

-----------------------------------------------------------------------------
(* Bounds of the model.                                                    *)

MaxTextLen == 5     \* tokens of a text handed to summarize
MaxChars == 6       \* largest max_chars handed to summarize
MaxUrlLen == 4      \* tokens of a URL after its host
MaxFeedLen == 2     \* entries of one feed document
MaxItems == 1       \* max_items of a section in config.yml
WindowTicks == 3    \* config["window_hours"], in ticks of 30 minutes

-----------------------------------------------------------------------------
(* Strings.                                                                *)

RECURSIVE SeqsUpTo(_, _)
SeqsUpTo(S, n) ==
    IF n = 0 THEN {<<>>}
    ELSE LET shorter == SeqsUpTo(S, n - 1)
         IN  shorter \cup {Append(s, c) : s \in {x \in shorter : Len(x) = n - 1}, c \in S}

\* The characters str.strip() and the regex class \s take for whitespace:
\* the space and U+00A0, which is what html.unescape makes of "&nbsp;".
IsSpace(c) == c \in {" ", "nbsp"}

\* s[:n]
Take(s, n) == SubSeq(s, 1, IF n < Len(s) THEN n ELSE Len(s))

\* str.lstrip / str.rstrip / str.strip
RECURSIVE LStrip(_)
LStrip(s) == IF s # <<>> /\ IsSpace(Head(s)) THEN LStrip(Tail(s)) ELSE s

RECURSIVE RStrip(_)
RStrip(s) ==
    IF s # <<>> /\ IsSpace(s[Len(s)]) THEN RStrip(SubSeq(s, 1, Len(s) - 1)) ELSE s

Strip(s) == RStrip(LStrip(s))

\* " ".join(parts)
RECURSIVE Join(_)
Join(parts) ==
    IF parts = <<>> THEN <<>>
    ELSE IF Len(parts) = 1 THEN parts[1]
    ELSE parts[1] \o <<" ">> \o Join(Tail(parts))

\* str.lower(), token by token
LowerTok(c) ==
    CASE c = "T" -> "t"
      [] c = "Opinion" -> "opinion"
      [] OTHER -> c

Lower(s) == [i \in 1..Len(s) |-> LowerTok(s[i])]

\* needle in hay
Contains(hay, needle) ==
    \E i \in 1..(Len(hay) - Len(needle) + 1) :
        SubSeq(hay, i, i + Len(needle) - 1) = needle

-----------------------------------------------------------------------------
(* utils.summarize                                                         *)

\* The position of the first ">" after position i, 0 when there is none.
RECURSIVE FirstGt(_, _)
FirstGt(s, i) ==
    IF i >= Len(s) THEN 0
    ELSE IF s[i + 1] = ">" THEN i + 1
    ELSE FirstGt(s, i + 1)

\* re.sub(r"<[^>]+>", " ", text): scanning from the left, a "<" followed by at
\* least one token other than ">" and then a ">" is replaced, with all between,
\* by one space; "<>" is no tag.
RECURSIVE StripTagsFrom(_, _)
StripTagsFrom(s, i) ==
    IF i > Len(s) THEN <<>>
    ELSE LET j == FirstGt(s, i)
         IN  IF s[i] = "<" /\ j >= i + 2
             THEN <<" ">> \o StripTagsFrom(s, j + 1)
             ELSE <<s[i]>> \o StripTagsFrom(s, i + 1)

StripTags(s) == StripTagsFrom(s, 1)

\* html.unescape: an entity reference becomes the character it names.
UnescapeTok(c) ==
    CASE c = "&nbsp;" -> "nbsp"
      [] c = "&lt;" -> "<"
      [] OTHER -> c

Unescape(s) == [i \in 1..Len(s) |-> UnescapeTok(s[i])]

\* cleaned = html.unescape(re.sub(r"<[^>]+>", " ", text))
Clean(text) == Unescape(StripTags(text))

\* The first position after i that holds no whitespace, 0 when there is none.
RECURSIVE NextTok(_, _)
NextTok(s, i) ==
    IF i >= Len(s) THEN 0
    ELSE IF ~IsSpace(s[i + 1]) THEN i + 1
    ELSE NextTok(s, i + 1)

\* nltk's sent_tokenize (Punkt): a sentence ends at a "." that is followed by
\* whitespace and then a further token; the next sentence starts at that
\* token, the last one ends where the text's trailing whitespace starts.
\* `last` is the start of the sentence being scanned, `i` the scan position.
RECURSIVE Slices(_, _, _)
Slices(s, last, i) ==
    IF i > Len(s) THEN <<SubSeq(s, last, Len(RStrip(s)))>>
    ELSE LET j == NextTok(s, i)
         IN  IF s[i] = "." /\ j > i + 1
             THEN <<SubSeq(s, last, i)>> \o Slices(s, j, j)
             ELSE Slices(s, last, i + 1)

sent_tokenize(s) == Slices(s, 1, 1)

\* The loop of summarize over the sentences from the n-th on: `parts` is
\* summary_parts and `total` is total_chars.
RECURSIVE Accumulate(_, _, _, _, _)
Accumulate(sentences, n, parts, total, max_chars) ==
    IF n > Len(sentences) THEN parts
    ELSE LET sentence == Strip(sentences[n])
         IN  IF sentence = <<>>
             THEN Accumulate(sentences, n + 1, parts, total, max_chars)
             ELSE IF total + Len(sentence) + 1 > max_chars
             THEN parts
             ELSE Accumulate(sentences, n + 1, Append(parts, sentence),
                             total + Len(sentence) + 1, max_chars)

\* A summarize whose fallback and result are cut but not stripped.
summarize_unstripped(text, max_chars) ==
    IF text = <<>> THEN <<>>
    ELSE LET cleaned == Clean(text)
             summary_parts == Accumulate(sent_tokenize(cleaned), 1, <<>>, 0, max_chars)
             summary == IF summary_parts # <<>>
                        THEN Join(summary_parts)
                        ELSE Take(cleaned, max_chars)
         IN  Take(summary, max_chars)

summarize(text, max_chars) ==
    IF text = <<>> THEN <<>>
    ELSE LET cleaned == Clean(text)
             summary_parts == Accumulate(sent_tokenize(cleaned), 1, <<>>, 0, max_chars)
             summary == IF summary_parts # <<>>
                        THEN Join(summary_parts)
                        ELSE Strip(Take(cleaned, max_chars))
         IN  Strip(Take(summary, max_chars))

-----------------------------------------------------------------------------
(* utils.detect_article_type                                               *)

\* "Opinion" if "/opinion/" in url.lower() else "News", with the case kept.
detect_article_type_cased(url) ==
    IF Contains(url, <<"/", "opinion", "/">>) THEN "Opinion" ELSE "News"

detect_article_type(url) ==
    IF Contains(Lower(url), <<"/", "opinion", "/">>) THEN "Opinion" ELSE "News"

-----------------------------------------------------------------------------
(* Time.  An instant is a number of 30-minute ticks.  The configured       *)
(* timezone leaves daylight-saving time at DstEnd, as America/Toronto      *)
(* does: its UTC offset is -4 h before and -5 h from then on.              *)

Now == WindowTicks + 12         \* main: now
DstEnd == Now - 1
OffsetSummer == -8              \* -04:00
OffsetWinter == -10             \* -05:00

\* tz.gettz(timezone).utcoffset at instant t
UtcOffset(t) == IF t < DstEnd THEN OffsetSummer ELSE OffsetWinter

\* None, among strings
None == <<"None">>

\* parse_date: date_parser.parse(date_str), then astimezone(local_tz).isoformat().
\* The result is the text "<local wall-clock time><offset>", held as the two
\* numbers it spells out.  The Optional[str] it returns is a sequence: <<>> for
\* None (the text could not be parsed), else the one text.
parse_date(date_str) ==
    IF date_str.kind = "ok"
    THEN <<[local |-> date_str.t + UtcOffset(date_str.t), offset |-> UtcOffset(date_str.t)]>>
    ELSE <<>>

\* datetime.fromisoformat(published_at), as an instant
fromisoformat(published_at) == published_at.local - published_at.offset

Abs(x) == IF x < 0 THEN 0 - x ELSE x

\* a < b for two ISO-8601 texts as Python compares str: first the wall-clock
\* part, then the offset suffix, where "+" sorts before "-" and two offsets of
\* the same sign sort by their digits.
IsoLess(a, b) ==
    \/ a.local < b.local
    \/ /\ a.local = b.local
       /\ \/ a.offset >= 0 /\ b.offset < 0
          \/ /\ (a.offset >= 0) = (b.offset >= 0)
             /\ Abs(a.offset) < Abs(b.offset)

\* list.sort(key=lambda x: x["published_at"], reverse=True): stable, so x goes
\* in front of the first item whose key is smaller than its own.
RECURSIVE InsertDesc(_, _)
InsertDesc(sorted, x) ==
    IF sorted = <<>> THEN <<x>>
    ELSE IF IsoLess(Head(sorted).published_at, x.published_at)
    THEN <<x>> \o sorted
    ELSE <<Head(sorted)>> \o InsertDesc(Tail(sorted), x)

RECURSIVE SortFrom(_, _, _)
SortFrom(list, i, sorted) ==
    IF i > Len(list) THEN sorted
    ELSE SortFrom(list, i + 1, InsertDesc(sorted, list[i]))

SortByPublished(list) == SortFrom(list, 1, <<>>)

-----------------------------------------------------------------------------
(* utils.stable_id, main.scrape_section, main.deduplicate                  *)

MaxSummaryChars == 500

\* A digest salted per process, as the built-in hash() of a str is.
stable_id_salted(url) == <<"sha1", url, run>>

\* hashlib.sha1(url.encode("utf-8")).hexdigest(): one digest per text.
stable_id(url) == <<"sha1", url>>

\* config["sections"], in the order of the file
Sections ==
    << [name |-> "Top Stories", max_items |-> MaxItems],
       [name |-> "World", max_items |-> MaxItems] >>

NumSections == Len(Sections)

\* window_start = now - timedelta(hours=config.get("window_hours", 24))
window_start == Now - WindowTicks

\* A date field of a raw entry: the key is absent, or holds "", a text that
\* dateutil cannot parse, or a date naming instant t.
Absent == [kind |-> "absent", t |-> 0]
Empty == [kind |-> "empty", t |-> 0]
Garbage == [kind |-> "bad", t |-> 0]
Date(t) == [kind |-> "ok", t |-> t]

DateKeys == <<"published", "updated", "pubDate", "date">>

\* for key in [...]: if key in entry: pub_str = entry[key]; break
RECURSIVE FirstPresent(_, _)
FirstPresent(entry, i) ==
    IF i > Len(DateKeys) THEN Absent
    ELSE IF entry[DateKeys[i]].kind # "absent" THEN entry[DateKeys[i]]
    ELSE FirstPresent(entry, i + 1)

\* The first field that holds a non-empty text, instead of the first present.
RECURSIVE FirstTruthy(_, _)
FirstTruthy(entry, i) ==
    IF i > Len(DateKeys) THEN Absent
    ELSE IF entry[DateKeys[i]].kind \notin {"absent", "empty"} THEN entry[DateKeys[i]]
    ELSE FirstTruthy(entry, i + 1)

select_pub_str_truthy(entry) == FirstTruthy(entry, 1)

select_pub_str(entry) == FirstPresent(entry, 1)

\* dt <= window_start
too_old_inclusive(dt) == dt <= window_start

\* dt < window_start
too_old(dt) == dt < window_start

\* entry.get("summary") or entry.get("description") or ""
summary_raw(entry) ==
    IF entry.summary # None /\ entry.summary # <<>> THEN entry.summary
    ELSE IF entry.description # None /\ entry.description # <<>> THEN entry.description
    ELSE <<>>

\* x or y
Or(x, y) == IF x # None /\ x # <<>> THEN x ELSE y

\* Whether scrape_section fetches the article page for this entry.
wants_extract(entry, extract) ==
    /\ summarize(summary_raw(entry), MaxSummaryChars) = <<>>
    /\ extract
    /\ entry.link # None /\ entry.link # <<>>

\* One iteration of the loop of scrape_section: what it appends to items.
\* `page` is what fetch_content returns when it is called: None or the HTML.
scrape_entry(entry, section, extract, page) ==
    LET pub_str == select_pub_str(entry)
        parsed == parse_date(pub_str)
        published_at == parsed[1]
    IN  IF pub_str.kind \in {"absent", "empty"} THEN <<>>
        ELSE IF parsed = <<>> THEN <<>>
        ELSE IF too_old(fromisoformat(published_at)) THEN <<>>
        ELSE LET url_entry == entry.link
                 title == Strip(Unescape(IF entry.title = None THEN <<>> ELSE entry.title))
                 from_feed == summarize(summary_raw(entry), MaxSummaryChars)
                 summary_auto ==
                     IF wants_extract(entry, extract) /\ page # None /\ page # <<>>
                     THEN summarize(page, MaxSummaryChars)
                     ELSE from_feed
             IN  << [ id |-> stable_id(Or(url_entry, title)),
                      url |-> url_entry,
                      title |-> title,
                      published_at |-> published_at,
                      section |-> section.name,
                      summary_auto |-> summary_auto,
                      article_type |-> detect_article_type(Or(url_entry, <<>>)) ] >>

\* items.sort(...); return items[:max_items]
section_result(list, section) == Take(SortByPublished(list), section.max_items)

\* key = (item.get("url"), (item.get("title") or "").lower())
dedup_key(item) == <<item.url, Lower(item.title)>>

RECURSIVE DedupFrom(_, _, _, _)
DedupFrom(list, i, seen, deduped) ==
    IF i > Len(list) THEN deduped
    ELSE IF dedup_key(list[i]) \in seen
    THEN DedupFrom(list, i + 1, seen, deduped)
    ELSE DedupFrom(list, i + 1, seen \cup {dedup_key(list[i])}, Append(deduped, list[i]))

deduplicate(list) == DedupFrom(list, 1, {}, <<>>)

-----------------------------------------------------------------------------
(* The upstream feeds.                                                     *)

Old == window_start - 1     \* strictly older than the window
Edge == window_start        \* exactly at now - window
Pre == DstEnd - 1           \* the last tick of summer time
Post == DstEnd              \* the first tick of winter time

UrlA == <<"https:", "/", "/", "cbc.ca", "/", "s">>
UrlOp == <<"https:", "/", "/", "cbc.ca", "/", "Opinion", "/", "s">>
Html == <<"<", "a", ">", "a", ".", " ">>

RawEntry(published, updated, pubDate, date, link, title, summary, description) ==
    [published |-> published, updated |-> updated, pubDate |-> pubDate, date |-> date,
     link |-> link, title |-> title, summary |-> summary, description |-> description]

Dated(published, updated, pubDate, date) ==
    RawEntry(published, updated, pubDate, date, UrlA, <<"T">>, <<"a", ".">>, None)

\* Entries that differ in their date fields.
DatedEntries ==
    {Dated(Date(t), Absent, Absent, Absent) : t \in {Old, Edge, Pre, Post}} \cup
    { Dated(Absent, Absent, Absent, Absent),
      Dated(Empty, Date(Post), Absent, Absent),
      Dated(Garbage, Date(Post), Absent, Absent),
      Dated(Absent, Date(Post), Absent, Absent),
      Dated(Absent, Absent, Date(Pre), Absent),
      Dated(Absent, Absent, Absent, Date(Edge)),
      Dated(Date(Pre), Date(Post), Absent, Absent) }

\* Entries that differ in link, title and instant.
KeyedEntries ==
    {RawEntry(Date(t), Absent, Absent, Absent, lt[1], lt[2], <<"a", ".">>, None) :
        t \in {Pre, Post},
        lt \in {<<UrlA, <<"T">>>>, <<UrlA, <<" ", "t">>>>, <<None, <<"T">>>>}}

\* Entries that differ in what the feed gives as a summary.
SummaryEntries ==
    {RawEntry(Date(Post), Absent, Absent, Absent, lsd[1], <<"T">>, lsd[2], lsd[3]) :
        lsd \in {<<UrlA, <<>>, None>>, <<None, None, None>>,
                 <<UrlOp, None, <<"a", ".">>>>, <<UrlA, <<"<", "a", ">">>, None>>}}

\* Entries for the repeated run: one without a summary, one without a link.
RepeatEntries ==
    {RawEntry(Date(Post), Absent, Absent, Absent, ls[1], <<"T">>, ls[2], None) :
        ls \in {<<UrlA, <<>>>>, <<None, <<"a", ".">>>>}}

Pools == {"dated", "keyed", "summary"}

EntriesOf(p) ==
    CASE p = "dated" -> DatedEntries
      [] p = "keyed" -> KeyedEntries
      [] p = "summary" -> SummaryEntries
      [] p = "repeat" -> RepeatEntries
      [] OTHER -> {}

\* What fetch_content can return: None (no 200, or an exception) or a page.
Pages == {None, Html}

FeedsOver(entries) == SeqsUpTo(entries, MaxFeedLen)

-----------------------------------------------------------------------------
(* main()                                                                  *)

NoFile == [state |-> "absent", items |-> <<>>]
NoPrev == [valid |-> FALSE, items |-> <<>>, pages |-> <<>>]

MainIdle ==
    /\ pc = "start" /\ sec = 1 /\ feed = <<>> /\ k = 0
    /\ items = <<>> /\ all_items = <<>> /\ output = <<>>
    /\ file = NoFile
    /\ visited = <<>> /\ failed = {} /\ pages = <<>> /\ writes = 0
    /\ run = 1 /\ prev = NoPrev

fixed_vars == <<allow_extract, pool, pinned, sum_vars, type_vars>>
env_vars == <<fixed_vars, run, prev>>

\* if not should_run_now(config, force=args.force): return
\* `allowed` says whether --force was given or the hour is an allowed one.
StartRun ==
    /\ pc = "start"
    /\ \E allowed \in BOOLEAN : pc' = IF allowed THEN "loop" ELSE "skipped"
    /\ UNCHANGED <<sec, feed, k, items, all_items, output, file,
                   visited, failed, pages, writes, env_vars>>

\* scrape_section up to its loop: fetch_feed_bytes and feedparser.parse succeed.
FetchFeed ==
    /\ pc = "loop" /\ sec <= NumSections
    /\ \E f \in (IF pinned = <<>> THEN FeedsOver(EntriesOf(pool)) ELSE {pinned[sec]}) :
           feed' = f
    /\ k' = 0 /\ items' = <<>>
    /\ visited' = Append(visited, sec)
    /\ pc' = "entries"
    /\ UNCHANGED <<sec, all_items, output, file, failed, pages, writes, env_vars>>

\* A failed fetch that ends the loop over the sections.
FetchFailsBreaks ==
    /\ pc = "loop" /\ sec <= NumSections
    /\ visited' = Append(visited, sec)
    /\ failed' = failed \cup {sec}
    /\ sec' = NumSections + 1
    /\ UNCHANGED <<pc, feed, k, items, all_items, output, file, pages, writes, env_vars>>

\* fetch_feed_bytes raises (raise_for_status, a connection error, a timeout):
\* main logs the error and goes on with the next section.
FetchFails ==
    /\ pc = "loop" /\ sec <= NumSections
    /\ visited' = Append(visited, sec)
    /\ failed' = failed \cup {sec}
    /\ sec' = sec + 1
    /\ UNCHANGED <<pc, feed, k, items, all_items, output, file, pages, writes, env_vars>>

\* One iteration in which a failed fetch of the article page raises instead of
\* giving None: the exception leaves scrape_section as any other does.
ProcessEntryFetchRaises ==
    /\ pc = "entries" /\ k < Len(feed)
    /\ LET entry == feed[k + 1]
           fetches == /\ scrape_entry(entry, Sections[sec], allow_extract, None) # <<>>
                      /\ wants_extract(entry, allow_extract)
       IN  \E page \in (IF fetches THEN Pages ELSE {None}) :
               /\ pages' = IF fetches THEN Append(pages, page) ELSE pages
               /\ IF fetches /\ page = None
                  THEN /\ failed' = failed \cup {sec}
                       /\ items' = <<>> /\ feed' = <<>> /\ k' = 0
                       /\ sec' = sec + 1 /\ pc' = "loop"
                  ELSE /\ items' = items \o scrape_entry(entry, Sections[sec], allow_extract, page)
                       /\ k' = k + 1
                       /\ UNCHANGED <<pc, sec, feed, failed>>
    /\ UNCHANGED <<all_items, output, file, visited, writes, env_vars>>

\* One iteration of `for entry in feed.entries`.
ProcessEntry ==
    /\ pc = "entries" /\ k < Len(feed)
    /\ LET entry == feed[k + 1]
           fetches == /\ scrape_entry(entry, Sections[sec], allow_extract, None) # <<>>
                      /\ wants_extract(entry, allow_extract)
       IN  \E page \in (IF fetches THEN Pages ELSE {None}) :
               /\ items' = items \o scrape_entry(entry, Sections[sec], allow_extract, page)
               /\ pages' = IF fetches THEN Append(pages, page) ELSE pages
    /\ k' = k + 1
    /\ UNCHANGED <<pc, sec, feed, all_items, output, file, visited, failed, writes, env_vars>>

\* An exception inside the loop of scrape_section: the items built so far are
\* lost with the frame, main logs the error and goes on.
ProcessingFails ==
    /\ pc = "entries" /\ k < Len(feed)
    /\ failed' = failed \cup {sec}
    /\ items' = <<>> /\ feed' = <<>> /\ k' = 0
    /\ sec' = sec + 1
    /\ pc' = "loop"
    /\ UNCHANGED <<all_items, output, file, visited, pages, writes, env_vars>>

\* scrape_section returns: items.sort, items[:max_items], all_items.extend.
FinishSection ==
    /\ pc = "entries" /\ k = Len(feed)
    /\ all_items' = all_items \o section_result(items, Sections[sec])
    /\ items' = <<>> /\ feed' = <<>> /\ k' = 0
    /\ sec' = sec + 1
    /\ pc' = "loop"
    /\ UNCHANGED <<output, file, visited, failed, pages, writes, env_vars>>

\* After the loop: all_items.sort, deduplicate, output = {...}.
Aggregate ==
    /\ pc = "loop" /\ sec > NumSections
    /\ all_items' = SortByPublished(all_items)
    /\ output' = deduplicate(SortByPublished(all_items))
    /\ pc' = "open"
    /\ UNCHANGED <<sec, feed, k, items, file, visited, failed, pages, writes, env_vars>>

\* open(output_path, "w"): the file is truncated.
OpenFile ==
    /\ pc = "open"
    /\ file' = [state |-> "partial", items |-> <<>>]
    /\ writes' = writes + 1
    /\ pc' = "dump"
    /\ UNCHANGED <<sec, feed, k, items, all_items, output, visited, failed, pages, env_vars>>

\* json.dump(output, f): the encoder's chunks reach the file one after another.
WriteItem ==
    /\ pc = "dump" /\ Len(file.items) < Len(output)
    /\ file' = [file EXCEPT !.items = Append(@, output[Len(@) + 1])]
    /\ UNCHANGED <<pc, sec, feed, k, items, all_items, output,
                   visited, failed, pages, writes, env_vars>>

\* The last chunk is written and the with block closes the file.
CloseFile ==
    /\ pc = "dump" /\ Len(file.items) = Len(output)
    /\ file' = [file EXCEPT !.state = "complete"]
    /\ pc' = "done"
    /\ UNCHANGED <<sec, feed, k, items, all_items, output,
                   visited, failed, pages, writes, env_vars>>

\* KeyboardInterrupt, which `except Exception` does not catch: it unwinds
\* main() from wherever it stands and __main__ logs it.
Interrupt ==
    /\ pc \in {"start", "loop", "entries", "open", "dump"}
    /\ pc' = "interrupted"
    /\ UNCHANGED <<sec, feed, k, items, all_items, output, file,
                   visited, failed, pages, writes, env_vars>>

\* The program is started again at the same `now`, after a run that got every
\* feed; latest.json stays.
Rerun ==
    /\ pc = "done" /\ run = 1 /\ failed = {}
    /\ prev' = [valid |-> TRUE, items |-> file.items, pages |-> pages]
    /\ run' = 2
    /\ pc' = "start" /\ sec' = 1 /\ feed' = <<>> /\ k' = 0
    /\ items' = <<>> /\ all_items' = <<>> /\ output' = <<>>
    /\ visited' = <<>> /\ failed' = {} /\ pages' = <<>> /\ writes' = 0
    /\ UNCHANGED <<file, fixed_vars>>

MainStep ==
    \/ StartRun
    \/ FetchFeed
    \/ FetchFails
    \/ ProcessEntry
    \/ ProcessingFails
    \/ FinishSection
    \/ Aggregate
    \/ OpenFile
    \/ WriteItem
    \/ CloseFile
    \/ Interrupt

-----------------------------------------------------------------------------
(* Inputs of the two pure-function specifications.                         *)

TextTokens == {"a", ".", " ", "<", ">", "&nbsp;"}
Texts == SeqsUpTo(TextTokens, MaxTextLen)

UrlTokens == {"/", "opinion", "Opinion", "s", "?"}
UrlHosts == {"cbc.ca", "opinion"}
\* https://<host> followed by nothing, by a path or by a query.
Urls ==
    {<<"https:", "/", "/", h>> \o r :
        h \in UrlHosts,
        r \in {x \in SeqsUpTo(UrlTokens, MaxUrlLen) : x = <<>> \/ x[1] \in {"/", "?"}}}

SumIdle  == sum_pc = "idle" /\ sum_text = <<>> /\ sum_max = 0 /\ sum_out = <<>>
TypeIdle == type_pc = "idle" /\ type_url = <<>> /\ type_out = "News"

\* summary = summarize(text, max_chars)
SummarizeCall ==
    /\ sum_pc = "idle"
    /\ \E text \in Texts, max_chars \in 0..MaxChars :
        /\ sum_text' = text
        /\ sum_max' = max_chars
        /\ sum_out' = summarize(text, max_chars)
    /\ sum_pc' = "done"
    /\ UNCHANGED <<type_vars, main_vars>>

\* article_type = detect_article_type(url)
DetectCall ==
    /\ type_pc = "idle"
    /\ \E url \in Urls :
        /\ type_url' = url
        /\ type_out' = detect_article_type(url)
    /\ type_pc' = "done"
    /\ UNCHANGED <<sum_vars, main_vars>>

\* The environment of a call of a pure function: no run of main().
NoRun == MainIdle /\ allow_extract = FALSE /\ pool = "none" /\ pinned = <<>>

InitSum == SumIdle /\ TypeIdle /\ NoRun
SpecSum == InitSum /\ [][SummarizeCall]_vars

InitType == SumIdle /\ TypeIdle /\ NoRun
SpecType == InitType /\ [][DetectCall]_vars

\* One run of main() over any feeds made of the entries of one pool.
Init ==
    /\ SumIdle /\ TypeIdle /\ MainIdle
    /\ allow_extract \in BOOLEAN
    /\ pool \in Pools
    /\ pinned = <<>>

Next == MainStep

Spec == Init /\ [][Next]_vars

\* Two runs of main() at the same `now` over feeds that do not change.
InitRepeat ==
    /\ SumIdle /\ TypeIdle /\ MainIdle
    /\ allow_extract \in BOOLEAN
    /\ pool = "repeat"
    /\ pinned \in [1..NumSections -> FeedsOver(RepeatEntries)]

NextRepeat == MainStep \/ Rerun

SpecRepeat == InitRepeat /\ [][NextRepeat]_vars

-----------------------------------------------------------------------------
(* Properties.                                                             *)

Range(seq) == {seq[i] : i \in 1..Len(seq)}

Instant(item) == fromisoformat(item.published_at)

Trimmed(s) == s = <<>> \/ (~IsSpace(s[1]) /\ ~IsSpace(s[Len(s)]))

\* C1: whatever the text and max_chars >= 0, the summary is at most max_chars
\* long and neither starts nor ends with whitespace.
C1_SummaryBoundedTrimmed ==
    sum_pc = "done" => Len(sum_out) <= sum_max /\ Trimmed(sum_out)

\* A cleaned text longer than max_chars whose first max_chars characters end
\* with whitespace, summarized to a non-empty text.
C1_Witness ==
    /\ sum_pc = "done"
    /\ sum_max > 0 /\ Len(Clean(sum_text)) > sum_max
    /\ IsSpace(Clean(sum_text)[sum_max])
    /\ sum_out # <<>>

\* C2: when the cleaned text is at most max_chars long, the summary is the
\* cleaned text, trimmed; also for several sentences of exactly max_chars.
C2_RoundTrip ==
    sum_pc = "done" /\ Len(Clean(sum_text)) <= sum_max
        => sum_out = Strip(Clean(sum_text))

OutputBuilt == pc \in {"open", "dump", "done"}

\* C3: the snapshot holds one record per (url, lowercased title), the first of
\* the merged sequence, in the order of that sequence; of records that share
\* a key and differ in published_at it is the one with the latest instant.
C3_DedupKeepsLatest ==
    OutputBuilt =>
        /\ \A i, j \in 1..Len(output) :
               i < j => dedup_key(output[i]) # dedup_key(output[j])
        /\ \A i \in 1..Len(all_items) :
               \E j \in 1..Len(output) :
                   /\ dedup_key(output[j]) = dedup_key(all_items[i])
                   /\ Instant(output[j]) >= Instant(all_items[i])

\* The step of ProcessEntry that handles entry feed[k + 1] to its end.
HandlesEntry ==
    /\ pc = "entries" /\ k < Len(feed)
    /\ failed' = failed /\ pc' # "interrupted"

\* Every record the run holds.
Held == Range(items) \cup Range(all_items) \cup Range(output) \cup Range(file.items)

Undated(entry) ==
    \/ \A i \in 1..Len(DateKeys) : entry[DateKeys[i]].kind = "absent"
    \/ \E i \in 1..Len(DateKeys) :
           /\ \A j \in 1..(i - 1) : entry[DateKeys[j]].kind = "absent"
           /\ entry[DateKeys[i]].kind \in {"empty", "bad"}

\* C5: an entry whose first present date field is empty or unparseable, or
\* that has no date field, adds nothing to items, whatever its later fields
\* hold, and the loop goes on with the next entry.
C5_UndatedDropped ==
    [][HandlesEntry /\ Undated(feed[k + 1]) =>
            /\ items' = items
            /\ pc' = "entries" /\ feed' = feed /\ k' = k + 1]_vars

\* An entry with an empty `published` and a good `updated` was dropped and
\* the entry after it was emitted.
C5_Witness ==
    /\ pc = "entries" /\ k = 2
    /\ feed[1].published = Empty /\ feed[1].updated.kind = "ok"
    /\ ~Undated(feed[2])
    /\ Len(items) = 1

SectionNames(S) == {Sections[i].name : i \in S}

\* C6: a section that fails adds nothing to all_items and the loop goes on
\* with the section after it: once the loop is over every section was tried,
\* in order, and no record of a failed section is held.
C6_FailureIsolated ==
    /\ [](OutputBuilt =>
            /\ visited = [i \in 1..NumSections |-> i]
            /\ \A r \in Range(all_items) \cup Range(output) :
                   r.section \notin SectionNames(failed))
    /\ [][failed' # failed =>
            /\ all_items' = all_items /\ output' = output /\ file' = file
            /\ sec' = sec + 1 /\ pc' = "loop"]_vars

\* The first section failed, the second gave a record, and the snapshot was
\* written with it.
C6_Witness ==
    /\ pc = "done" /\ failed = {1}
    /\ file.state = "complete" /\ Len(file.items) = 1
    /\ file.items[1].section = Sections[2].name

\* C7: latest.json is written once, atomically and after all sections: in no
\* state does it hold part of a snapshot, and a run that is through has
\* written it exactly once.
C7_WrittenOnceAtomically ==
    /\ file.state \in {"absent", "complete"}
    /\ file.state = "complete" => Len(visited) = NumSections /\ file.items = output
    /\ writes <= 1
    /\ pc = "done" => writes = 1

BothRunsDone == run = 2 /\ pc = "done" /\ failed = {} /\ prev.valid

\* Every record's id is the digest of its url, or of its title without a url.
IdOfUrlOrTitle ==
    \A r \in Held : r.id = <<"sha1", IF r.url # None THEN r.url ELSE r.title>>

\* C8: a second run at the same now, with the same configuration and the same
\* feed entries, writes the snapshot the first run wrote.
C8_SameSnapshot ==
    /\ BothRunsDone => file.items = prev.items
    /\ IdOfUrlOrTitle

\* C8, amended: ... and the same results of the secondary article fetches.
C8_SameSnapshotSamePages ==
    /\ BothRunsDone /\ pages = prev.pages => file.items = prev.items
    /\ IdOfUrlOrTitle

\* Both runs fetched an article page, got the same page, and wrote records
\* with and without a url.
C8_Witness ==
    /\ BothRunsDone /\ pages = prev.pages /\ pages # <<>>
    /\ file.state = "complete"
    /\ \E r1, r2 \in Range(file.items) : r1.url = None /\ r2.url # None

SectionIndex(name) == CHOOSE i \in 1..NumSections : Sections[i].name = name

\* C9: the snapshot's records are ordered by the instant of published_at,
\* newest first, and records of one instant keep the order of the sections.
C9_NewestFirst ==
    OutputBuilt =>
        \A i, j \in 1..Len(output) :
            i < j =>
                /\ Instant(output[i]) >= Instant(output[j])
                /\ Instant(output[i]) = Instant(output[j]) =>
                       SectionIndex(output[i].section) <= SectionIndex(output[j].section)

\* s.split(sep)
RECURSIVE Split(_, _)
Split(s, sep) ==
    IF \A i \in 1..Len(s) : s[i] # sep THEN <<s>>
    ELSE LET i == CHOOSE x \in 1..Len(s) : s[x] = sep /\ \A y \in 1..(x - 1) : s[y] # sep
         IN  <<SubSeq(s, 1, i - 1)>> \o Split(SubSeq(s, i + 1, Len(s)), sep)

\* The path of a URL https://<host><path>[?<query>]
UrlPath(url) == Split(SubSeq(url, 5, Len(url)), "?")[1]

IsOpinionSegment(seg) == seg \in {<<"opinion">>, <<"Opinion">>}

\* C10: the type is "Opinion" exactly when a segment of the URL's path is
\* `opinion`, whatever its case.
C10_OpinionPathSegment ==
    type_pc = "done" =>
        (type_out = "Opinion" <=>
            \E seg \in Range(Split(UrlPath(type_url), "/")) : IsOpinionSegment(seg))

\* C10, amended: the type is "Opinion" exactly when, of the pieces the
\* slashes cut the whole URL into (host and query included), one that is
\* neither the first nor the last is `opinion`, whatever its case.
C10_OpinionBetweenSlashes ==
    type_pc = "done" =>
        LET pieces == Split(type_url, "/")
        IN  type_out = "Opinion" <=>
                \E i \in 2..(Len(pieces) - 1) : IsOpinionSegment(pieces[i])

\* A URL typed "Opinion" whose path has no segment `opinion`.
C10_Witness ==
    /\ type_pc = "done" /\ type_out = "Opinion"
    /\ \A seg \in Range(Split(UrlPath(type_url), "/")) : ~IsOpinionSegment(seg)

\* The step of FinishSection: scrape_section returns its result.
ReturnsSection == pc = "entries" /\ k = Len(feed) /\ pc' = "loop"

\* What the section that returns in this step adds to all_items.
Returned == SubSeq(all_items', Len(all_items) + 1, Len(all_items'))

\* The choices of Len(res) different positions of list that give res, records
\* of one instant in the order they have in list.
Selections(list, res) ==
    {f \in [1..Len(res) -> 1..Len(list)] :
        /\ \A i \in 1..Len(res) : res[i] = list[f[i]]
        /\ \A i, j \in 1..Len(res) :
               i < j => f[i] # f[j] /\ (Instant(res[i]) = Instant(res[j]) => f[i] < f[j])}

\* C11: a section result holds at most max_items records, the newest of the
\* section's emitted records: it is ordered by instant, newest first, records
\* of one instant in feed order, and no record left out is newer than one kept.
C11_SectionNewestCapped ==
    [][ReturnsSection =>
            LET cap == Sections[sec].max_items
            IN  /\ Len(Returned) = (IF Len(items) < cap THEN Len(items) ELSE cap)
                /\ \A i, j \in 1..Len(Returned) :
                       i < j => Instant(Returned[i]) >= Instant(Returned[j])
                /\ \E f \in Selections(items, Returned) :
                       \A d \in 1..Len(items) :
                           (\A i \in 1..Len(Returned) : f[i] # d) =>
                               \A i \in 1..Len(Returned) :
                                   Instant(items[d]) <= Instant(Returned[i])]_vars

NonEmpty(s) == s # <<>>

\* The sentences of a cleaned text, each trimmed, the empty ones left out.
Sentences(cleaned) ==
    LET sentences == sent_tokenize(cleaned)
    IN  SelectSeq([i \in 1..Len(sentences) |-> Strip(sentences[i])], NonEmpty)

\* The first n of the sentences, joined with one space.
Leading(sentences, n) == Join(SubSeq(sentences, 1, n))

\* The number of leading sentences that go into a summary of at most max_chars
\* characters when the first sentence that would overflow ends the summary.
GreedyCount(sentences, max_chars) ==
    CHOOSE n \in 0..Len(sentences) :
        /\ \A i \in 1..n : Len(Leading(sentences, i)) <= max_chars
        /\ n < Len(sentences) => Len(Leading(sentences, n + 1)) > max_chars

\* C12: the summary is the longest run of leading sentences that, joined with
\* one space, is at most max_chars long; when not even the first sentence
\* fits, it is the first max_chars characters of the cleaned text, trimmed.
C12_GreedyPrefix ==
    sum_pc = "done" =>
        LET cleaned == Clean(sum_text)
            sentences == Sentences(cleaned)
            n == GreedyCount(sentences, sum_max)
        IN  sum_out = IF n = 0 THEN Strip(Take(cleaned, sum_max))
                      ELSE Leading(sentences, n)

\* The summary the feed itself gives for an entry.
FeedSummary(entry) ==
    summarize(Or(entry.summary, Or(entry.description, <<>>)), MaxSummaryChars)

\* C13: an article page is fetched only for an entry whose feed summary is
\* empty, with allow_extract on and a link present; when the fetch gives
\* nothing the entry is emitted with an empty summary_auto and the loop goes
\* on with the next entry; with allow_extract off no page is ever fetched.
C13_ExtractBestEffort ==
    /\ [](~allow_extract => pages = <<>>)
    /\ [][pages' # pages =>
            /\ pc = "entries" /\ k < Len(feed)
            /\ FeedSummary(feed[k + 1]) = <<>>
            /\ allow_extract
            /\ feed[k + 1].link \notin {None, <<>>}
            /\ Len(pages') = Len(pages) + 1
            /\ SubSeq(pages', 1, Len(pages)) = pages
            /\ pages'[Len(pages')] = None =>
                   /\ Len(items') = Len(items) + 1
                   /\ SubSeq(items', 1, Len(items)) = items
                   /\ items'[Len(items')].summary_auto = <<>>
                   /\ items'[Len(items')].url = feed[k + 1].link
                   /\ pc' = "entries" /\ feed' = feed /\ k' = k + 1
                   /\ sec' = sec /\ failed' = failed]_vars

\* The fetch for the first entry gave nothing, the entry was emitted with an
\* empty summary, and the entry after it was emitted too.
C13_Witness ==
    /\ pc = "entries" /\ k = 2 /\ allow_extract
    /\ pages # <<>> /\ pages[1] = None
    /\ Len(items) = 2
    /\ items[1].summary_auto = <<>> /\ items[1].url = feed[1].link

=============================================================================
